---- MODULE Spec2Model ----
(***************************************************************************)
(* Model of the chainsnaps snapshot scanner                                *)
(* (src/api/app/services/snapshot_scanner.py): the path parser, one        *)
(* reconciliation pass (_run_single_scan / _scan_all_snapshots) over a     *)
(* two-level S3 prefix tree, the catalog tables (snapshots, scan_history)  *)
(* and the background loop that drives scheduled passes.                   *)
(*                                                                         *)
(* Strings the code takes apart (directory names, paths) are sequences of  *)
(* one-character strings.  A nullable value is a set: None is {} and a     *)
(* present value v is {v}.                                                 *)
(***************************************************************************)
EXTENDS Integers, Sequences, FiniteSets, TLC

VARIABLES
    settings,      \* app.config.Settings as the process sees it
    store,         \* the S3 bucket: what each listing / object call answers
    snapshots,     \* table "snapshots" (committed rows, id = position)
    scan_history,  \* table "scan_history" (committed rows, id = position)
    clock,         \* datetime.utcnow()
    pass,          \* per process: the frame of the pass it is executing
    edits,         \* how many times the bucket was changed from outside
    is_running,    \* SnapshotScannerService.is_running
    loop,          \* the _scanning_loop task of the API process
    hist,          \* history: what the passes ended with
    parser         \* a directory name and what parse_snapshot_path made of it

vars == <<settings, store, snapshots, scan_history, clock, pass, edits,
          is_running, loop, hist, parser>>

(***************************************************************************)
(* Bounds of the model.                                                    *)
(***************************************************************************)
MaxScans == 2      \* rows of scan_history, i.e. passes ever started
MaxEdits == 1      \* changes of the bucket made from outside
MaxTasks == 2      \* _scanning_loop tasks ever created
MaxTokens == 5     \* dash-separated tokens of a directory name given to the parser
MaxSlashes == 2    \* trailing slashes of such a name

None == {}
Some(v) == {v}
Val(o) == CHOOSE v \in o : TRUE

(***************************************************************************)
(* Python string helpers on character sequences.                           *)
(***************************************************************************)
Digits == {"0", "1", "2", "3", "4", "5", "6", "7", "8", "9"}

\* str.rstrip(c): drop every trailing c
RStrip(s, c) ==
    LET n == CHOOSE k \in 0..Len(s) :
                 /\ \A i \in (k + 1)..Len(s) : s[i] = c
                 /\ (k = 0 \/ s[k] # c)
    IN  SubSeq(s, 1, n)

\* re.sub(r'-v\d+$', '', s): drop one trailing "-v<digits>"
StripVersion(s) ==
    LET cands == {k \in 1..Len(s) :
                     /\ k + 2 <= Len(s)
                     /\ s[k] = "-"
                     /\ s[k + 1] = "v"
                     /\ \A i \in (k + 2)..Len(s) : s[i] \in Digits}
    IN  IF cands = {} THEN s
        ELSE SubSeq(s, 1, (CHOOSE k \in cands : \A j \in cands : k <= j) - 1)

\* str.split(sep): never empty, "" splits into <<"">>
RECURSIVE Split(_, _)
Split(s, sep) ==
    IF \A i \in 1..Len(s) : s[i] # sep
    THEN <<s>>
    ELSE LET k == CHOOSE i \in 1..Len(s) :
                      s[i] = sep /\ \A j \in 1..(i - 1) : s[j] # sep
         IN  <<SubSeq(s, 1, k - 1)>> \o Split(SubSeq(s, k + 1, Len(s)), sep)

\* sep.join(parts)
RECURSIVE Join(_, _)
Join(parts, sep) ==
    IF Len(parts) = 0 THEN <<>>
    ELSE IF Len(parts) = 1 THEN parts[1]
    ELSE parts[1] \o <<sep>> \o Join(Tail(parts), sep)

unknown == <<"u", "n", "k", "n", "o", "w", "n">>
mainnet == <<"m", "a", "i", "n", "n", "e", "t">>
archive == <<"a", "r", "c", "h", "i", "v", "e">>

\* altered behaviour: the fields are always taken from the front
parse_from_the_front(protocol_dir) ==
    LET parts == Split(StripVersion(RStrip(protocol_dir, "/")), "-")
        n == Len(parts)
    IN  [chain   |-> parts[1],
         client  |-> IF n > 1 THEN parts[2] ELSE unknown,
         network |-> IF n > 2 THEN parts[3] ELSE mainnet,
         type    |-> IF n > 3 THEN parts[4] ELSE archive]

\* altered behaviour: three tokens are taken for a full name
parse_from_three_tokens(protocol_dir) ==
    LET parts == Split(StripVersion(RStrip(protocol_dir, "/")), "-")
        n == Len(parts)
    IN  IF n >= 3
        THEN [chain   |-> Join(SubSeq(parts, 1, n - 3), "-"),
              client  |-> parts[n - 2],
              network |-> parts[n - 1],
              type    |-> parts[n]]
        ELSE [chain   |-> parts[1],
              client  |-> IF n > 1 THEN parts[2] ELSE unknown,
              network |-> mainnet,
              type    |-> archive]

\* SnapshotScannerService.parse_snapshot_path
parse_snapshot_path(protocol_dir) ==
    LET clean_path == StripVersion(RStrip(protocol_dir, "/"))
        parts == Split(clean_path, "-")
        n == Len(parts)
    IN  IF n >= 4
        THEN [chain   |-> Join(SubSeq(parts, 1, n - 3), "-"),
              client  |-> parts[n - 2],
              network |-> parts[n - 1],
              type    |-> parts[n]]
        ELSE [chain   |-> IF n > 0 THEN parts[1] ELSE unknown,
              client  |-> IF n > 1 THEN parts[2] ELSE unknown,
              network |-> IF n > 2 THEN parts[3] ELSE mainnet,
              type    |-> IF n > 3 THEN parts[4] ELSE archive]

(***************************************************************************)
(* The bucket.  Two protocol directories in listing order, each with one   *)
(* version directory:  a-b-r-m-f-v1/1/  and  e-g/1/ .                      *)
(***************************************************************************)
ProtocolDirs ==
    << <<"a", "-", "b", "-", "r", "-", "m", "-", "f", "-", "v", "1", "/">>,
       <<"e", "-", "g", "/">> >>

VersionDirs ==
    << [proto |-> 1, name |-> <<"1">>],
       [proto |-> 2, name |-> <<"1">>] >>

ProtoIds == 1..Len(ProtocolDirs)
DirIds == 1..Len(VersionDirs)

\* the Prefix of a second-level CommonPrefixes entry
version_dir(d) == ProtocolDirs[VersionDirs[d].proto] \o VersionDirs[d].name \o <<"/">>

\* manifest-header.json contents that parse as JSON objects
HeaderJson(h) ==
    IF h = "A"
    THEN [total_size  |-> Some(10),
          chunks      |-> Some(2),
          compression |-> Some([is_dict |-> TRUE, algorithm |-> Some("zstd")])]
    ELSE [total_size  |-> Some(0),
          chunks      |-> Some(3),
          compression |-> Some([is_dict |-> FALSE, algorithm |-> None])]

(* A version directory is missing ("nodir"), or listed with manifest-body.json
   absent, present, or refused ("denied": the HEAD answers 403); a directory
   with the marker has manifest-header.json absent ("none"), unreadable or
   not JSON ("bad"), or one of the two JSON objects above. *)
DirStates ==
    {[body |-> b, header |-> "none"] : b \in {"nodir", "absent", "denied"}}
        \cup {[body |-> "present", header |-> h] : h \in {"none", "bad", "A", "B"}}

\* which listing call fails: none, the root listing, or that of a protocol directory
ListErrs == {"none", "root"} \cup {"proto2"}

Stores == [dirs : [DirIds -> DirStates], listErr : ListErrs]

\* paginator.paginate(Bucket, Delimiter="/"): the first-level prefixes
ListRootPrefixes(st) ==
    SelectSeq([i \in ProtoIds |-> i],
              LAMBDA i : \E d \in DirIds :
                  VersionDirs[d].proto = i /\ st.dirs[d].body # "nodir")

\* paginator.paginate(Bucket, Prefix=protocol_dir, Delimiter="/")
ListVersionPrefixes(st, i) ==
    SelectSeq([d \in DirIds |-> d],
              LAMBDA d : VersionDirs[d].proto = i /\ st.dirs[d].body # "nodir")

ListFails(st, what) == st.listErr = what

(* client.head_object: "ok", or the exception it raises.  A HEAD response has
   no body, so a missing key comes back as ClientError with code "404"
   (as S3Client.get_snapshot_metadata expects), not as NoSuchKey. *)
head_object(st, d) ==
    CASE st.dirs[d].body = "present" -> "ok"
      [] st.dirs[d].body = "denied"  -> "ClientError:403"
      [] OTHER                       -> "ClientError:404"

\* except client.exceptions.NoSuchKey
IsNoSuchKey(exc) == exc = "NoSuchKey"

\* altered behaviour: the .get defaults applied although the header could not be read
read_header_defaults(st, d) ==
    IF st.dirs[d].header \in {"none", "bad"}
    THEN [header_data |-> None, total_size |-> Some(0),
          total_chunks |-> Some(0), compression_type |-> None]
    ELSE [header_data |-> Some(st.dirs[d].header),
          total_size |-> HeaderJson(st.dirs[d].header).total_size,
          total_chunks |-> HeaderJson(st.dirs[d].header).chunks,
          compression_type |-> None]

\* lines 312-335: the optional header manifest, every failure swallowed
read_header(st, d) ==
    LET h == st.dirs[d].header
        j == HeaderJson(h)
        compression_info ==
            IF j.compression = None
            THEN [is_dict |-> TRUE, algorithm |-> None]
            ELSE Val(j.compression)
    IN  IF h \in {"none", "bad"}
        THEN [header_data |-> None, total_size |-> None,
              total_chunks |-> None, compression_type |-> None]
        ELSE [header_data |-> Some(h),
              total_size |-> IF j.total_size = None THEN Some(0) ELSE j.total_size,
              total_chunks |-> IF j.chunks = None THEN Some(0) ELSE j.chunks,
              compression_type |->
                  IF compression_info.is_dict THEN compression_info.algorithm
                  ELSE None]

\* Python truth value of an optional number / optional string
TruthyInt(o) == o # None /\ o # Some(0)
TruthyStr(o) == o # None /\ o # Some("")

(***************************************************************************)
(* The catalog.                                                            *)
(***************************************************************************)
\* db.query(Snapshot).filter(Snapshot.snapshot_path == path).first(); 0 is None
find_by_path(rows, path) ==
    IF \E i \in 1..Len(rows) : rows[i].snapshot_path = path
    THEN CHOOSE i \in 1..Len(rows) :
             /\ rows[i].snapshot_path = path
             /\ \A j \in 1..(i - 1) : rows[j].snapshot_path # path
    ELSE 0

\* altered behaviour: the column declared without unique=True
NoUniqueConstraint(rows, path) == FALSE

\* Snapshot.snapshot_path: unique=True
UniqueViolation(rows, path) == \E i \in 1..Len(rows) : rows[i].snapshot_path = path

(***************************************************************************)
(* One reconciliation pass.  A process runs one pass at a time: the pass   *)
(* holds no await that suspends, so within a process it runs to its end;   *)
(* its S3 and database calls are the points where another process's pass   *)
(* can come in between.                                                    *)
(***************************************************************************)
Procs == {"api", "peer"}

NoMetrics == [total_size_bytes |-> None, total_chunks |-> None, compression_type |-> None]
NoHeader == [header_data |-> None, total_size |-> None,
             total_chunks |-> None, compression_type |-> None]
NoCur == [dir |-> 0, existing |-> 0, loaded |-> NoMetrics, header |-> NoHeader]

IdleFrame ==
    [pc |-> "idle", scan_type |-> "", caller |-> "", db |-> "closed", run |-> 0,
     fatal |-> "", protos |-> <<>>, vers |-> <<>>, cur |-> NoCur,
     snapshots_found |-> 0, new_snapshots |-> 0, updated_snapshots |-> 0,
     errors |-> <<>>, prefixes_scanned |-> <<>>,
     \* history, never read by the pass: the directories it finished with, looked
     \* up as absent, inserted, updated and counted as found
     seen |-> {}, absent |-> {}, created |-> {}, updated |-> {}, counted |-> {}]

ItemError(d, exc) == [msg |-> "Error processing", dir |-> d, exc |-> exc]
BucketError(exc) == [msg |-> "Error scanning bucket", dir |-> 0, exc |-> exc]
FatalError(exc) == [msg |-> "Fatal error", dir |-> 0, exc |-> exc]

\* get_s3_client(): S3Client() is built on first use and fails on bad settings
get_s3_client_raises == ~settings.s3_ok

\* next(get_db()): a session of its own for the caller, nothing pending in it
get_db == "ok"

\* _run_single_scan, lines 169-189: open the ScanRun, then get the client
Begin(p, scan_type, caller) ==
    /\ pass[p].pc = "idle"
    /\ Len(scan_history) < MaxScans
    /\ clock' = clock + 1
    /\ scan_history' = Append(scan_history,
           [started_at |-> clock', completed_at |-> None, scan_type |-> scan_type,
            snapshots_found |-> 0, new_snapshots |-> 0, updated_snapshots |-> 0,
            errors |-> None, prefixes_scanned |-> None])
    /\ pass' = [pass EXCEPT ![p] =
           [IdleFrame EXCEPT !.pc = IF get_s3_client_raises THEN "close" ELSE "root",
                             !.fatal = IF get_s3_client_raises THEN "ValueError" ELSE "",
                             !.scan_type = scan_type,
                             !.caller = caller,
                             !.db = get_db,
                             !.run = Len(scan_history) + 1]]
    /\ hist' = Append(hist,
           [proc |-> p, scan_type |-> scan_type, status |-> "running",
            snapshots_found |-> 0, new_snapshots |-> 0, updated_snapshots |-> 0,
            errors |-> <<>>, closes |-> 0, before |-> snapshots,
            edits0 |-> edits, absent |-> {}, created |-> {}])
    /\ UNCHANGED <<parser, settings, store, snapshots, edits>>

\* replace the frame of p
SetFrame(p, f) == pass' = [pass EXCEPT ![p] = f]

\* lines 253-263: list the first-level prefixes
ListRoot(p) ==
    /\ pass[p].pc = "root"
    /\ IF ListFails(store, "root")
       THEN SetFrame(p, [pass[p] EXCEPT
                !.errors = Append(@, BucketError("ClientError")),
                !.pc = "close"])
       ELSE SetFrame(p, [pass[p] EXCEPT
                !.protos = ListRootPrefixes(store),
                !.pc = "proto"])
    /\ UNCHANGED <<parser, settings, store, snapshots, scan_history, clock, edits,
                   is_running, loop, hist>>

\* lines 266-281: the next protocol directory and its version prefixes
ListVersions(p) ==
    /\ pass[p].pc = "proto"
    /\ LET f == pass[p] IN
       IF f.protos = <<>>
       THEN SetFrame(p, [f EXCEPT !.pc = "close"])
       ELSE LET i == Head(f.protos)
                g == [f EXCEPT !.protos = Tail(@),
                               !.prefixes_scanned =
                                   Append(@, RStrip(ProtocolDirs[i], "/"))]
            IN  IF ListFails(store, IF i = 1 THEN "proto1" ELSE "proto2")
                THEN SetFrame(p, [g EXCEPT
                         !.errors = Append(@, BucketError("ClientError")),
                         !.pc = "close"])
                ELSE LET vs == ListVersionPrefixes(store, i)
                     IN  SetFrame(p, [g EXCEPT
                             !.vers = vs,
                             !.pc = IF vs = <<>> THEN "proto" ELSE "visit"])
    /\ UNCHANGED <<parser, settings, store, snapshots, scan_history, clock, edits,
                   is_running, loop, hist>>

\* go on to the next version directory (the end of the inner for body)
Advance(f) ==
    [f EXCEPT !.vers = Tail(@),
              !.cur = NoCur,
              !.seen = @ \cup {Head(f.vers)},
              !.pc = IF Tail(f.vers) = <<>> THEN "proto" ELSE "visit"]

\* altered behaviour: a directory whose processing raised is counted as found all the same
HandleItemCounted(f, exc) ==
    IF IsNoSuchKey(exc)
    THEN Advance(f)
    ELSE Advance([f EXCEPT !.errors = Append(@, ItemError(Head(f.vers), exc)),
                           !.snapshots_found = @ + 1])

\* altered behaviour: every failure of the per-directory try skips the directory silently
HandleItemSilently(f, exc) == Advance(f)

\* lines 381-388: the two handlers of the per-directory try
HandleItem(f, exc) ==
    IF IsNoSuchKey(exc)
    THEN Advance(f)
    ELSE Advance([f EXCEPT !.errors = Append(@, ItemError(Head(f.vers), exc))])

\* db.query(...) on a session whose flush failed and was never rolled back
QueryRaises(f) == f.db = "pending_rollback"

\* altered behaviour: a directory whose marker check fails has its record deactivated
VisitPruning(p) ==
    /\ pass[p].pc = "visit"
    /\ LET f == pass[p]
           d == Head(f.vers)
           head == head_object(store, d)
           id == find_by_path(snapshots, RStrip(version_dir(d), "/"))
       IN  IF head # "ok"
           THEN /\ SetFrame(p, HandleItem(f, head))
                /\ snapshots' = IF id = 0 THEN snapshots
                                ELSE [snapshots EXCEPT ![id].is_active = FALSE]
           ELSE /\ UNCHANGED snapshots
                /\ SetFrame(p, [f EXCEPT
                    !.pc = "write",
                    !.absent = IF id = 0 THEN @ \cup {d} ELSE @,
                    !.cur = [dir |-> d,
                             existing |-> id,
                             loaded |-> IF id = 0 THEN NoMetrics
                                        ELSE [total_size_bytes |-> snapshots[id].total_size_bytes,
                                              total_chunks |-> snapshots[id].total_chunks,
                                              compression_type |-> snapshots[id].compression_type],
                             header |-> read_header(store, d)]])
    /\ UNCHANGED <<parser, settings, store, scan_history, clock, edits,
                   is_running, loop, hist>>

\* lines 283-335: marker check, lookup, optional header
Visit(p) ==
    /\ pass[p].pc = "visit"
    /\ LET f == pass[p]
           d == Head(f.vers)
           head == head_object(store, d)
           id == find_by_path(snapshots, RStrip(version_dir(d), "/"))
       IN  IF head # "ok"
           THEN SetFrame(p, HandleItem(f, head))
           ELSE IF QueryRaises(f)
           THEN SetFrame(p, HandleItem(f, "PendingRollbackError"))
           ELSE SetFrame(p, [f EXCEPT
                    !.pc = "write",
                    !.absent = IF id = 0 THEN @ \cup {d} ELSE @,
                    !.cur = [dir |-> d,
                             existing |-> id,
                             loaded |-> IF id = 0 THEN NoMetrics
                                        ELSE [total_size_bytes |-> snapshots[id].total_size_bytes,
                                              total_chunks |-> snapshots[id].total_chunks,
                                              compression_type |-> snapshots[id].compression_type],
                             header |-> read_header(store, d)]])
    /\ UNCHANGED <<parser, settings, store, snapshots, scan_history, clock, edits,
                   is_running, loop, hist>>

\* altered behaviour: the parser is given the version directory, not the protocol directory
NewSnapshotParsedFromVersionDir(d, h, now) ==
    LET parsed_info == parse_snapshot_path(version_dir(d))
        path == RStrip(version_dir(d), "/")
        path_parts == Split(path, "/")
    IN  [chain |-> parsed_info.chain,
         client |-> parsed_info.client,
         network |-> parsed_info.network,
         type |-> parsed_info.type,
         snapshot_path |-> path,
         snapshot_id |-> path_parts[Len(path_parts)],
         manifest_header_path |->
             IF h.header_data # None
             THEN Some(version_dir(d) \o <<"manifest-header.json">>)
             ELSE None,
         total_size_bytes |-> h.total_size,
         total_chunks |-> h.total_chunks,
         compression_type |-> h.compression_type,
         snapshot_metadata |-> h.header_data,
         external_metadata |-> None,
         block_height |-> None,
         indexed_at |-> now,
         last_updated_at |-> now,
         is_active |-> TRUE]

\* altered behaviour: the insert names the header manifest whether it was read or not
NewSnapshotWithHeaderPath(d, h, now) ==
    LET parsed_info == parse_snapshot_path(ProtocolDirs[VersionDirs[d].proto])
        path == RStrip(version_dir(d), "/")
        path_parts == Split(path, "/")
    IN  [chain |-> parsed_info.chain,
         client |-> parsed_info.client,
         network |-> parsed_info.network,
         type |-> parsed_info.type,
         snapshot_path |-> path,
         snapshot_id |-> path_parts[Len(path_parts)],
         manifest_header_path |-> Some(version_dir(d) \o <<"manifest-header.json">>),
         total_size_bytes |-> h.total_size,
         total_chunks |-> h.total_chunks,
         compression_type |-> h.compression_type,
         snapshot_metadata |-> h.header_data,
         external_metadata |-> None,
         block_height |-> None,
         indexed_at |-> now,
         last_updated_at |-> now,
         is_active |-> TRUE]

\* the row db.add(new_snapshot) inserts, lines 359-373
NewSnapshot(d, h, now) ==
    LET parsed_info == parse_snapshot_path(ProtocolDirs[VersionDirs[d].proto])
        path == RStrip(version_dir(d), "/")
        path_parts == Split(path, "/")
    IN  [chain |-> parsed_info.chain,
         client |-> parsed_info.client,
         network |-> parsed_info.network,
         type |-> parsed_info.type,
         snapshot_path |-> path,
         snapshot_id |-> path_parts[Len(path_parts)],
         manifest_header_path |->
             IF h.header_data # None
             THEN Some(version_dir(d) \o <<"manifest-header.json">>)
             ELSE None,
         total_size_bytes |-> h.total_size,
         total_chunks |-> h.total_chunks,
         compression_type |-> h.compression_type,
         snapshot_metadata |-> h.header_data,
         external_metadata |-> None,
         block_height |-> None,
         indexed_at |-> now,
         last_updated_at |-> now,
         is_active |-> TRUE]

\* altered behaviour: the size written whenever the manifest has one, equal or not
SizeWrittenAlways(loaded, h) == TruthyInt(h.total_size)

\* lines 340-348: which manifest fields the pass overwrites
SizeChanged(loaded, h) ==
    TruthyInt(h.total_size) /\ loaded.total_size_bytes # h.total_size
\* altered behaviour: the chunk count written whenever the manifest has one, equal or not
ChunksWrittenAlways(loaded, h) == TruthyInt(h.total_chunks)

ChunksChanged(loaded, h) ==
    TruthyInt(h.total_chunks) /\ loaded.total_chunks # h.total_chunks
CompressionChanged(loaded, h) ==
    TruthyStr(h.compression_type) /\ loaded.compression_type # h.compression_type

\* altered behaviour: the UPDATE rewrites the whole row from the manifest
UpdatedSnapshotWholeRow(row, loaded, h, now) ==
    [row EXCEPT
        !.total_size_bytes = IF SizeChanged(loaded, h) THEN h.total_size ELSE @,
        !.total_chunks = IF ChunksChanged(loaded, h) THEN h.total_chunks ELSE @,
        !.compression_type =
            IF CompressionChanged(loaded, h) THEN h.compression_type ELSE @,
        !.last_updated_at = now,
        !.snapshot_metadata = IF h.header_data # None THEN h.header_data ELSE @,
        !.external_metadata = None,
        !.block_height = None]

\* altered behaviour: the UPDATE also restamps the row as newly indexed
UpdatedSnapshotReindexed(row, loaded, h, now) ==
    [row EXCEPT
        !.total_size_bytes = IF SizeChanged(loaded, h) THEN h.total_size ELSE @,
        !.total_chunks = IF ChunksChanged(loaded, h) THEN h.total_chunks ELSE @,
        !.compression_type =
            IF CompressionChanged(loaded, h) THEN h.compression_type ELSE @,
        !.last_updated_at = now,
        !.indexed_at = now,
        !.snapshot_metadata = IF h.header_data # None THEN h.header_data ELSE @]

\* lines 339-354: the UPDATE the commit sends for an existing row
UpdatedSnapshot(row, loaded, h, now) ==
    [row EXCEPT
        !.total_size_bytes = IF SizeChanged(loaded, h) THEN h.total_size ELSE @,
        !.total_chunks = IF ChunksChanged(loaded, h) THEN h.total_chunks ELSE @,
        !.compression_type =
            IF CompressionChanged(loaded, h) THEN h.compression_type ELSE @,
        !.last_updated_at = now,
        !.snapshot_metadata = IF h.header_data # None THEN h.header_data ELSE @]

\* lines 337-379: update the existing row or insert a new one
Write(p) ==
    /\ pass[p].pc = "write"
    /\ LET f == pass[p]
           c == f.cur
           path == RStrip(version_dir(c.dir), "/")
           updated == \/ SizeChanged(c.loaded, c.header)
                      \/ ChunksChanged(c.loaded, c.header)
                      \/ CompressionChanged(c.loaded, c.header)
           counted == [f EXCEPT !.snapshots_found = @ + 1,
                                !.counted = @ \cup {c.dir}]
       IN  IF c.existing # 0
           THEN IF updated
                THEN /\ snapshots' = [snapshots EXCEPT ![c.existing] =
                            UpdatedSnapshot(@, c.loaded, c.header, clock)]
                     /\ SetFrame(p, Advance([counted EXCEPT
                            !.updated_snapshots = @ + 1,
                            !.updated = @ \cup {c.dir}]))
                ELSE /\ UNCHANGED snapshots
                     /\ SetFrame(p, Advance(counted))
           ELSE IF UniqueViolation(snapshots, path)
                THEN \* db.commit() raises IntegrityError; nobody rolls the session back
                     /\ UNCHANGED snapshots
                     /\ SetFrame(p, HandleItem([f EXCEPT !.db = "pending_rollback"],
                                               "IntegrityError"))
                ELSE /\ snapshots' = Append(snapshots, NewSnapshot(c.dir, c.header, clock))
                     /\ SetFrame(p, Advance([counted EXCEPT
                            !.new_snapshots = @ + 1,
                            !.created = @ \cup {c.dir}]))
    /\ UNCHANGED <<parser, settings, store, scan_history, clock, edits, is_running, loop, hist>>

\* db.commit() on a session whose flush failed and was never rolled back
CommitRaises(f) == f.db = "pending_rollback"

\* altered behaviour: the error list is returned to the caller but not stored in the row
ClosedRunWithoutErrors(row, f, now) ==
    [row EXCEPT
        !.completed_at = Some(now),
        !.snapshots_found = f.snapshots_found,
        !.new_snapshots = f.new_snapshots,
        !.updated_snapshots = f.updated_snapshots,
        !.prefixes_scanned = Some(f.prefixes_scanned)]

\* altered behaviour: a pass that collected errors is closed with its counts left at zero
ClosedRunDroppingCounts(row, f, now) ==
    [row EXCEPT
        !.completed_at = Some(now),
        !.snapshots_found = IF f.errors = <<>> THEN f.snapshots_found ELSE 0,
        !.new_snapshots = IF f.errors = <<>> THEN f.new_snapshots ELSE 0,
        !.updated_snapshots = IF f.errors = <<>> THEN f.updated_snapshots ELSE 0,
        !.errors = IF f.errors = <<>> THEN None ELSE Some(f.errors),
        !.prefixes_scanned = Some(f.prefixes_scanned)]

\* lines 203-212: the ScanRun row as the try block commits it
ClosedRun(row, f, now) ==
    [row EXCEPT
        !.completed_at = Some(now),
        !.snapshots_found = f.snapshots_found,
        !.new_snapshots = f.new_snapshots,
        !.updated_snapshots = f.updated_snapshots,
        !.errors = IF f.errors = <<>> THEN None ELSE Some(f.errors),
        !.prefixes_scanned = Some(f.prefixes_scanned)]

\* lines 231-235: the ScanRun row as the fatal handler commits it
FailedRun(row, exc, now) ==
    [row EXCEPT
        !.completed_at = Some(now),
        !.errors = Some(<<FatalError(exc)>>)]

\* lines 195-240: close the ScanRun and return, or fail doing so
Close(p) ==
    /\ pass[p].pc = "close"
    /\ LET f == pass[p]
           r == f.run
       IN  IF CommitRaises(f)
           THEN \* line 212 raises, the handler's commit at line 235 raises again
                /\ UNCHANGED scan_history
                /\ SetFrame(p, [f EXCEPT !.pc = "raised", !.fatal = "PendingRollbackError"])
                /\ hist' = [hist EXCEPT ![r].status = "raised",
                                        ![r].errors = f.errors,
                                        ![r].absent = f.absent,
                                        ![r].created = f.created]
           ELSE IF f.fatal # ""
           THEN /\ scan_history' = [scan_history EXCEPT
                       ![r] = FailedRun(@, f.fatal, clock)]
                /\ SetFrame(p, [f EXCEPT !.pc = "returned"])
                /\ hist' = [hist EXCEPT ![r].status = "error",
                                        ![r].closes = @ + 1]
           ELSE /\ scan_history' = [scan_history EXCEPT
                       ![r] = ClosedRun(@, f, clock)]
                /\ SetFrame(p, [f EXCEPT !.pc = "returned"])
                /\ hist' = [hist EXCEPT ![r].status = "completed",
                                        ![r].snapshots_found = f.snapshots_found,
                                        ![r].new_snapshots = f.new_snapshots,
                                        ![r].updated_snapshots = f.updated_snapshots,
                                        ![r].errors = f.errors,
                                        ![r].absent = f.absent,
                                        ![r].created = f.created,
                                        ![r].closes = @ + 1]
    /\ UNCHANGED <<parser, settings, store, snapshots, clock, edits, is_running, loop>>

\* altered behaviour: scan_now leaves scan_type out of its call
ScanNowUntagged(p) == Begin(p, "scheduled", "scan_now") /\ UNCHANGED <<is_running, loop>>

\* altered behaviour: a manual scan marks the scanner as running
ScanNowSetsRunning(p) ==
    /\ Begin(p, "manual", "scan_now")
    /\ is_running' = TRUE
    /\ UNCHANGED loop

\* scan_now, lines 118-126
ScanNow(p) == Begin(p, "manual", "scan_now") /\ UNCHANGED <<is_running, loop>>

\* altered behaviour: scan_now goes back to its caller without db.close()
ScanNowReturnLeaks(p) ==
    /\ pass[p].pc \in {"returned", "raised"}
    /\ pass[p].caller = "scan_now"
    /\ SetFrame(p, [IdleFrame EXCEPT !.db = pass[p].db])
    /\ UNCHANGED <<parser, settings, store, snapshots, scan_history, clock, edits,
                   is_running, loop, hist>>

\* scan_now's finally: db.close(), then the result or the exception goes to the caller
ScanNowReturn(p) ==
    /\ pass[p].pc \in {"returned", "raised"}
    /\ pass[p].caller = "scan_now"
    /\ SetFrame(p, IdleFrame)
    /\ UNCHANGED <<parser, settings, store, snapshots, scan_history, clock, edits,
                   is_running, loop, hist>>

\* a scheduled pass as the loop makes it (lines 133-137, 151-155), the loop left out
ScheduledScan(p) == Begin(p, "scheduled", "scheduled") /\ UNCHANGED <<is_running, loop>>

ScheduledReturn(p) ==
    /\ pass[p].pc \in {"returned", "raised"}
    /\ pass[p].caller = "scheduled"
    /\ SetFrame(p, IdleFrame)
    /\ UNCHANGED <<parser, settings, store, snapshots, scan_history, clock, edits,
                   is_running, loop, hist>>

(***************************************************************************)
(* The scheduler of the API process.  loop.tasks are the _scanning_loop    *)
(* tasks created so far, loop.task is self.task, loop.starting and         *)
(* loop.stopping are the start() and stop() calls suspended in their await *)
(* (named by the task they created or cancelled).  A pass has no           *)
(* suspension point, so nothing else of the process runs while one is in   *)
(* progress.                                                               *)
(***************************************************************************)
Api == "api"
NewTask == [pc |-> "created", cancel |-> FALSE, exc |-> ""]
TaskIds == 1..Len(loop.tasks)
done(t) == loop.tasks[t].pc \in {"ended", "failed", "cancelled"}
SetTask(t, pc, exc) == [loop EXCEPT !.tasks[t].pc = pc, !.tasks[t].exc = exc]
\* line 140, while self.is_running: the next wait, or "Scanner loop ended"
WhileCheck == IF is_running THEN "sleep" ELSE "ended"

\* what a call of start() or stop() went back to its caller with
Returned(op, status, t) == [op |-> op, status |-> status, task |-> t]

\* lines 85-94: what start() answers after the grace wait, self.task being t;
\* awaiting a cancelled task raises CancelledError, which except Exception lets through
StartStatus(t) ==
    IF loop.tasks[t].pc = "failed" THEN "error"
    ELSE IF loop.tasks[t].pc = "cancelled" THEN "raised"
    ELSE "started"

\* altered behaviour: stop() awaits the task without catching CancelledError
StopStatusUncaught(t) ==
    IF loop.tasks[t].pc \in {"failed", "cancelled"} THEN "raised" ELSE "stopped"

\* lines 107-116: what stop() answers once the task t it awaits is done;
\* only CancelledError is caught
StopStatus(t) ==
    IF loop.tasks[t].pc = "failed" THEN "raised" ELSE "stopped"

\* altered behaviour: start() does not look at is_running and creates another task
StartWhileRunning ==
    /\ pass[Api].pc = "idle"
    /\ is_running
    /\ Len(loop.tasks) < MaxTasks
    /\ loop' = [loop EXCEPT !.tasks = Append(@, [pc |-> "created", cancel |-> FALSE, exc |-> ""]),
                            !.task = Len(loop.tasks) + 1,
                            !.starting = @ \cup {Len(loop.tasks) + 1}]
    /\ UNCHANGED <<parser, settings, store, snapshots, scan_history, clock, pass, edits,
                   is_running, hist>>

\* start(), lines 70-72
StartAlreadyRunning ==
    /\ pass[Api].pc = "idle"
    /\ is_running
    /\ loop' = [loop EXCEPT !.ret = Returned("start", "already_running", 0)]
    /\ UNCHANGED <<parser, settings, store, snapshots, scan_history, clock, pass, edits,
                   is_running, hist>>

\* altered behaviour: start() does not look at scan_on_startup
StartIgnoringSetting ==
    /\ pass[Api].pc = "idle"
    /\ ~is_running
    /\ ~settings.scan_on_startup
    /\ Len(loop.tasks) < MaxTasks
    /\ is_running' = TRUE
    /\ loop' = [loop EXCEPT !.tasks = Append(@, [pc |-> "created", cancel |-> FALSE, exc |-> ""]),
                            !.task = Len(loop.tasks) + 1,
                            !.starting = @ \cup {Len(loop.tasks) + 1}]
    /\ UNCHANGED <<parser, settings, store, snapshots, scan_history, clock, pass, edits, hist>>

\* start(), lines 74-76
StartDisabled ==
    /\ pass[Api].pc = "idle"
    /\ ~is_running
    /\ ~settings.scan_on_startup
    /\ loop' = [loop EXCEPT !.ret = Returned("start", "disabled", 0)]
    /\ UNCHANGED <<parser, settings, store, snapshots, scan_history, clock, pass, edits,
                   is_running, hist>>

\* stop(), lines 104-105
StopAlreadyStopped ==
    /\ pass[Api].pc = "idle"
    /\ ~is_running
    /\ loop' = [loop EXCEPT !.ret = Returned("stop", "already_stopped", 0)]
    /\ UNCHANGED <<parser, settings, store, snapshots, scan_history, clock, pass, edits,
                   is_running, hist>>

\* altered behaviour: start() gets to run while a pass of the process is open
StartMidPass ==
    /\ ~is_running
    /\ settings.scan_on_startup
    /\ Len(loop.tasks) < MaxTasks
    /\ is_running' = TRUE
    /\ loop' = [loop EXCEPT !.tasks = Append(@, NewTask),
                            !.task = Len(loop.tasks) + 1,
                            !.starting = @ \cup {Len(loop.tasks) + 1}]
    /\ UNCHANGED <<parser, settings, store, snapshots, scan_history, clock, pass, edits, hist>>

\* start(), lines 66-84, up to the grace wait
Start ==
    /\ pass[Api].pc = "idle"
    /\ ~is_running
    /\ settings.scan_on_startup
    /\ Len(loop.tasks) < MaxTasks
    /\ is_running' = TRUE
    /\ loop' = [loop EXCEPT !.tasks = Append(@, NewTask),
                            !.task = Len(loop.tasks) + 1,
                            !.starting = @ \cup {Len(loop.tasks) + 1}]
    /\ UNCHANGED <<parser, settings, store, snapshots, scan_history, clock, pass, edits, hist>>

\* altered behaviour: the handler of lines 88-91 answers "error" but leaves is_running set
StartResumeKeepsFlag(t) ==
    /\ pass[Api].pc = "idle"
    /\ t \in loop.starting
    /\ loop.tasks[t].pc # "created"
    /\ loop' = [loop EXCEPT !.starting = @ \ {t},
                            !.ret = Returned("start", StartStatus(loop.task), t)]
    /\ UNCHANGED <<parser, settings, store, snapshots, scan_history, clock, pass, edits,
                   is_running, hist>>

\* start(), lines 86-100, after the grace wait (the task it created has had its first step)
StartResume(t) ==
    /\ pass[Api].pc = "idle"
    /\ t \in loop.starting
    /\ loop.tasks[t].pc # "created"
    /\ loop' = [loop EXCEPT !.starting = @ \ {t},
                            !.ret = Returned("start", StartStatus(loop.task), t)]
    /\ is_running' = IF loop.tasks[loop.task].pc = "failed" THEN FALSE ELSE is_running
    /\ UNCHANGED <<parser, settings, store, snapshots, scan_history, clock, pass, edits, hist>>

\* altered behaviour: stop() clears the flag and awaits the task without cancelling it
StopWithoutCancel ==
    /\ pass[Api].pc = "idle"
    /\ is_running
    /\ is_running' = FALSE
    /\ loop' = IF done(loop.task)
               THEN [loop EXCEPT !.ret = Returned("stop", StopStatus(loop.task), loop.task)]
               ELSE [loop EXCEPT !.stopping = @ \cup {loop.task}]
    /\ UNCHANGED <<parser, settings, store, snapshots, scan_history, clock, pass, edits, hist>>

\* stop(), lines 102-111: clear the flag, cancel self.task and await it
Stop ==
    /\ pass[Api].pc = "idle"
    /\ is_running
    /\ is_running' = FALSE
    /\ loop' = IF done(loop.task)
               THEN [loop EXCEPT !.ret = Returned("stop", StopStatus(loop.task), loop.task)]
               ELSE [loop EXCEPT !.tasks[loop.task].cancel = TRUE,
                                 !.stopping = @ \cup {loop.task}]
    /\ UNCHANGED <<parser, settings, store, snapshots, scan_history, clock, pass, edits, hist>>

\* stop(), lines 111-116: the awaited task has finished
StopResume(t) ==
    /\ pass[Api].pc = "idle"
    /\ t \in loop.stopping
    /\ done(t)
    /\ loop' = [loop EXCEPT !.stopping = @ \ {t},
                            !.ret = Returned("stop", StopStatus(t), t)]
    /\ UNCHANGED <<parser, settings, store, snapshots, scan_history, clock, pass, edits,
                   is_running, hist>>

\* a pass of the loop: db.add / db.commit of lines 177-178 go through (the
\* pass begins) or raise because the database cannot be reached
LoopScan(t, db_up, scanning, raised) ==
    IF db_up
    THEN /\ Begin(Api, "scheduled", "loop")
         /\ loop' = SetTask(t, scanning, "")
    ELSE /\ loop' = SetTask(t, raised, "OperationalError")
         /\ UNCHANGED <<parser, settings, store, snapshots, scan_history, clock, pass, edits, hist>>

\* _scanning_loop, lines 128-137: the first step of the task, the initial pass
FirstStep(t) ==
    /\ pass[Api].pc = "idle"
    /\ t \in TaskIds
    /\ loop.tasks[t].pc = "created"
    /\ IF loop.tasks[t].cancel
       THEN /\ loop' = SetTask(t, "cancelled", "CancelledError")
            /\ UNCHANGED <<parser, settings, store, snapshots, scan_history, clock, pass, edits, hist>>
       ELSE \E db_up \in BOOLEAN : LoopScan(t, db_up, "initial_scan", "failed")
    /\ UNCHANGED is_running

\* altered behaviour: the interval wait runs to its end whatever stop() asked for
WakeSleepShielded(t) ==
    /\ pass[Api].pc = "idle"
    /\ t \in TaskIds
    /\ loop.tasks[t].pc = "sleep"
    /\ t \notin loop.starting
    /\ IF ~is_running
       THEN /\ loop' = SetTask(t, "ended", "")
            /\ UNCHANGED <<parser, settings, store, snapshots, scan_history, clock,
                           pass, edits, hist>>
       ELSE \E db_up \in BOOLEAN : LoopScan(t, db_up, "scan", "cooldown")
    /\ UNCHANGED is_running

\* lines 142-155: the interval wait ends, by cancellation or by time
WakeSleep(t) ==
    /\ pass[Api].pc = "idle"
    /\ t \in TaskIds
    /\ loop.tasks[t].pc = "sleep"
    /\ IF loop.tasks[t].cancel
       THEN \* except asyncio.CancelledError: break
            /\ loop' = SetTask(t, "ended", "")
            /\ UNCHANGED <<parser, settings, store, snapshots, scan_history, clock, pass, edits, hist>>
       ELSE /\ t \notin loop.starting
            /\ IF ~is_running
               THEN /\ loop' = SetTask(t, "ended", "")
                    /\ UNCHANGED <<parser, settings, store, snapshots, scan_history, clock,
                                   pass, edits, hist>>
               ELSE \E db_up \in BOOLEAN : LoopScan(t, db_up, "scan", "cooldown")
    /\ UNCHANGED is_running

\* altered behaviour: the failed pass is tried again as soon as the cooldown is over
WakeCooldownRetries(t) ==
    /\ pass[Api].pc = "idle"
    /\ t \in TaskIds
    /\ loop.tasks[t].pc = "cooldown"
    /\ IF loop.tasks[t].cancel
       THEN /\ loop' = SetTask(t, "cancelled", "CancelledError")
            /\ UNCHANGED <<parser, settings, store, snapshots, scan_history, clock,
                           pass, edits, hist>>
       ELSE /\ t \notin loop.starting
            /\ \E db_up \in BOOLEAN : LoopScan(t, db_up, "scan", "cooldown")
    /\ UNCHANGED is_running

\* altered behaviour: a cancellation that arrives in the cooldown is caught and the loop goes on
WakeCooldownSwallowsCancel(t) ==
    /\ pass[Api].pc = "idle"
    /\ t \in TaskIds
    /\ loop.tasks[t].pc = "cooldown"
    /\ IF loop.tasks[t].cancel
       THEN loop' = [loop EXCEPT !.tasks[t].cancel = FALSE, !.tasks[t].pc = "sleep"]
       ELSE /\ t \notin loop.starting
            /\ loop' = SetTask(t, WhileCheck, "")
    /\ UNCHANGED <<parser, settings, store, snapshots, scan_history, clock, pass, edits,
                   is_running, hist>>

\* altered behaviour: a pass that raised ends the loop, as the initial pass does
WakeCooldownGivesUp(t) ==
    /\ pass[Api].pc = "idle"
    /\ t \in TaskIds
    /\ loop.tasks[t].pc = "cooldown"
    /\ IF loop.tasks[t].cancel
       THEN loop' = SetTask(t, "cancelled", "CancelledError")
       ELSE /\ t \notin loop.starting
            /\ loop' = SetTask(t, "failed", loop.tasks[t].exc)
    /\ UNCHANGED <<parser, settings, store, snapshots, scan_history, clock, pass, edits,
                   is_running, hist>>

\* line 163: the cooldown ends, by cancellation (outside the try) or by time
WakeCooldown(t) ==
    /\ pass[Api].pc = "idle"
    /\ t \in TaskIds
    /\ loop.tasks[t].pc = "cooldown"
    /\ IF loop.tasks[t].cancel
       THEN loop' = SetTask(t, "cancelled", "CancelledError")
       ELSE /\ t \notin loop.starting
            /\ loop' = SetTask(t, WhileCheck, "")
    /\ UNCHANGED <<parser, settings, store, snapshots, scan_history, clock, pass, edits,
                   is_running, hist>>

\* the pass of the loop is over: finally db.close(), then on with the loop
LoopScanReturn(t) ==
    /\ t \in TaskIds
    /\ loop.tasks[t].pc \in {"initial_scan", "scan"}
    /\ pass[Api].pc \in {"returned", "raised"}
    /\ pass[Api].caller = "loop"
    /\ SetFrame(Api, IdleFrame)
    /\ loop' = IF pass[Api].pc = "returned"
               THEN SetTask(t, WhileCheck, "")
               ELSE IF loop.tasks[t].pc = "initial_scan"
                    THEN SetTask(t, "failed", pass[Api].fatal)
                    ELSE SetTask(t, "cooldown", pass[Api].fatal)
    /\ UNCHANGED <<parser, settings, store, snapshots, scan_history, clock, edits,
                   is_running, hist>>

(***************************************************************************)
(* The world around the scanner.                                           *)
(***************************************************************************)
\* somebody writes or deletes the objects of one version directory, or a
\* listing call starts or stops failing (between the passes)
StoreEdit ==
    /\ edits < MaxEdits
    /\ \A p \in Procs : pass[p].pc = "idle"
    /\ \/ \E d \in DirIds, ds \in DirStates :
              ds # store.dirs[d] /\ store' = [store EXCEPT !.dirs[d] = ds]
       \/ \E e \in ListErrs :
              e # store.listErr /\ store' = [store EXCEPT !.listErr = e]
    /\ edits' = edits + 1
    /\ UNCHANGED <<parser, settings, snapshots, scan_history, clock, pass, is_running, loop, hist>>

\* routers/snapshots.py update_snapshot, lines 133-172 (one annotation per row)
ExternalUpdate ==
    /\ \A p \in Procs : pass[p].pc = "idle"
    /\ \E id \in 1..Len(snapshots) :
          /\ snapshots[id].external_metadata = None
          /\ snapshots' = [snapshots EXCEPT
                 ![id].block_height = Some(100),
                 ![id].external_metadata = Some("note"),
                 ![id].last_updated_at = clock]
    /\ UNCHANGED <<parser, settings, store, scan_history, clock, pass, edits,
                   is_running, loop, hist>>

NoLoop == [task |-> 0, tasks |-> <<>>, starting |-> {}, stopping |-> {},
           ret |-> [op |-> "", status |-> "", task |-> 0]]

NoParse == [protocol_dir |-> <<>>, parsed_info |-> None]

InitCommon ==
    /\ snapshots = <<>>
    /\ scan_history = <<>>
    /\ clock = 0
    /\ pass = [p \in Procs |-> IdleFrame]
    /\ edits = 0
    /\ is_running = FALSE
    /\ loop = NoLoop
    /\ hist = <<>>

(***************************************************************************)
(* Spec: one scanner process, its passes one after the other, over every   *)
(* bucket content, with the bucket and the annotations changing between.   *)
(***************************************************************************)
Init ==
    /\ settings \in [scan_on_startup : {TRUE}, s3_ok : BOOLEAN]
    /\ store \in Stores
    /\ InitCommon
    /\ parser = NoParse

Next ==
    \/ ScanNow("api")
    \/ ScheduledScan("api")
    \/ ListRoot("api")
    \/ ListVersions("api")
    \/ Visit("api")
    \/ Write("api")
    \/ Close("api")
    \/ ScanNowReturn("api")
    \/ ScheduledReturn("api")
    \/ StoreEdit

Spec == Init /\ [][Next]_vars

(***************************************************************************)
(* SpecConc: two processes on the same catalog and bucket (the API process *)
(* and a second replica), their passes interleaved at every S3 and         *)
(* database call.                                                          *)
(***************************************************************************)
NextConc ==
    \E p \in Procs :
        \/ ScanNow(p)
        \/ ScheduledScan(p)
        \/ ListRoot(p)
        \/ ListVersions(p)
        \/ Visit(p)
        \/ Write(p)
        \/ Close(p)
        \/ ScanNowReturn(p)
        \/ ScheduledReturn(p)

SpecConc == Init /\ [][NextConc]_vars

(***************************************************************************)
(* SpecExt: one scanner process over a bucket whose version directories    *)
(* all carry the marker at first, with the update endpoint annotating      *)
(* records between the passes.                                             *)
(***************************************************************************)
InitExt ==
    /\ settings \in [scan_on_startup : {TRUE}, s3_ok : {TRUE}]
    /\ store \in {st \in Stores :
                     /\ st.listErr = "none"
                     /\ st.dirs[1].body = "present"
                     /\ st.dirs[2] = [body |-> "present", header |-> "A"]}
    /\ InitCommon
    /\ parser = NoParse

NextExt ==
    \/ ScanNow("api")
    \/ ScheduledScan("api")
    \/ ListRoot("api")
    \/ ListVersions("api")
    \/ Visit("api")
    \/ Write("api")
    \/ Close("api")
    \/ ScanNowReturn("api")
    \/ ScheduledReturn("api")
    \/ StoreEdit
    \/ ExternalUpdate

SpecExt == InitExt /\ [][NextExt]_vars

(***************************************************************************)
(* SpecLoop: the API process with its scheduler: start(), stop(), the      *)
(* background loop and manual scans, the database reachable or not when a  *)
(* pass of the loop begins, the S3 settings valid or not.                  *)
(***************************************************************************)
InitLoop ==
    /\ settings \in [scan_on_startup : BOOLEAN, s3_ok : BOOLEAN]
    /\ store \in {st \in Stores :
                     /\ st.listErr = "none"
                     /\ st.dirs[1] = [body |-> "present", header |-> "A"]
                     /\ st.dirs[2].body \in {"nodir", "present"}
                     /\ st.dirs[2].header = "none"}
    /\ InitCommon
    /\ parser = NoParse

NextLoop ==
    \/ StartAlreadyRunning
    \/ StartDisabled
    \/ StopAlreadyStopped
    \/ Start
    \/ \E t \in loop.starting : StartResume(t)
    \/ Stop
    \/ \E t \in loop.stopping : StopResume(t)
    \/ \E t \in TaskIds : FirstStep(t)
    \/ \E t \in TaskIds : WakeSleep(t)
    \/ \E t \in TaskIds : WakeCooldown(t)
    \/ \E t \in TaskIds : LoopScanReturn(t)
    \/ ScanNow(Api)
    \/ ScanNowReturn(Api)
    \/ ListRoot(Api)
    \/ ListVersions(Api)
    \/ Visit(Api)
    \/ Write(Api)
    \/ Close(Api)

SpecLoop == InitLoop /\ [][NextLoop]_vars

(***************************************************************************)
(* SpecLive: SpecLoop with the event loop's progress: a task that can take *)
(* its next step takes it (every sleep elapses, a cancellation is          *)
(* delivered, the grace wait of start() ends, an awaited task that is done *)
(* lets stop() go on) and a pass that has begun runs to its return.        *)
(***************************************************************************)
LoopProgress ==
    \A t \in 1..MaxTasks :
        /\ WF_vars(FirstStep(t))
        /\ WF_vars(WakeSleep(t))
        /\ WF_vars(WakeCooldown(t))
        /\ WF_vars(LoopScanReturn(t))
        /\ WF_vars(StartResume(t))
        /\ WF_vars(StopResume(t))

\* Write(Api) can be taken exactly when the pass is at its write and always
\* leaves it, so its weak fairness is that the pass is not at its write forever
PassProgress ==
    /\ WF_vars(ListRoot(Api))
    /\ WF_vars(ListVersions(Api))
    /\ WF_vars(Visit(Api))
    /\ []<>(pass[Api].pc # "write")
    /\ WF_vars(Close(Api))
    /\ WF_vars(ScanNowReturn(Api))

SpecLive == InitLoop /\ [][NextLoop]_vars /\ LoopProgress /\ PassProgress

(***************************************************************************)
(* SpecSeq: the scheduler as main.py's lifespan drives it: a call of       *)
(* start() or stop() is awaited to its end before the next one is made,    *)
(* while manual scans and the loop go on in between.                       *)
(***************************************************************************)
NoCallPending == loop.starting = {} /\ loop.stopping = {}

NextSeq ==
    \/ NoCallPending /\ StartAlreadyRunning
    \/ NoCallPending /\ StartDisabled
    \/ NoCallPending /\ StopAlreadyStopped
    \/ NoCallPending /\ Start
    \/ \E t \in loop.starting : StartResume(t)
    \/ NoCallPending /\ Stop
    \/ \E t \in loop.stopping : StopResume(t)
    \/ \E t \in TaskIds : FirstStep(t)
    \/ \E t \in TaskIds : WakeSleep(t)
    \/ \E t \in TaskIds : WakeCooldown(t)
    \/ \E t \in TaskIds : LoopScanReturn(t)
    \/ ScanNow(Api)
    \/ ScanNowReturn(Api)
    \/ ListRoot(Api)
    \/ ListVersions(Api)
    \/ Visit(Api)
    \/ Write(Api)
    \/ Close(Api)

SpecSeq == InitLoop /\ [][NextSeq]_vars

(***************************************************************************)
(* SpecParse: parse_snapshot_path applied to directory names made of a few *)
(* dash-joined tokens (empty ones and version-like ones included), a       *)
(* version suffix or none, and trailing slashes; and to the names of the   *)
(* docstring.                                                              *)
(***************************************************************************)
Tokens == {<<>>, <<"a">>, <<"b", "1">>, <<"v", "1">>}
Suffixes == {<<>>, <<"-", "v", "1">>, <<"-", "v", "1", "2">>, <<"-", "v">>}
Slashes(k) == [i \in 1..k |-> "/"]
ArbitrumDir ==
    <<"a", "r", "b", "i", "t", "r", "u", "m", "-", "o", "n", "e", "-",
      "n", "i", "t", "r", "o", "-", "m", "a", "i", "n", "n", "e", "t", "-",
      "f", "u", "l", "l", "-", "v", "1">>
DirNames ==
    {ArbitrumDir, ArbitrumDir \o <<"/">>} \cup
    {Join(ts, "-") \o suffix \o Slashes(k) :
        ts \in UNION {[1..n -> Tokens] : n \in 0..MaxTokens},
        suffix \in Suffixes,
        k \in 0..MaxSlashes}

InitParse ==
    /\ settings \in [scan_on_startup : {TRUE}, s3_ok : {TRUE}]
    /\ store \in {st \in Stores : st.listErr = "none" /\ \A d \in DirIds : st.dirs[d].body = "nodir"}
    /\ InitCommon
    /\ parser \in [protocol_dir : DirNames, parsed_info : {None}]

\* self.parse_snapshot_path(protocol_dir), line 304
ParsePath ==
    /\ parser.parsed_info = None
    /\ parser' = [parser EXCEPT !.parsed_info = Some(parse_snapshot_path(parser.protocol_dir))]
    /\ UNCHANGED <<settings, store, snapshots, scan_history, clock, pass, edits,
                   is_running, loop, hist>>

NextParse == ParsePath

SpecParse == InitParse /\ [][NextParse]_vars

(***************************************************************************)
(* Properties.                                                             *)
(***************************************************************************)
snapshot_path(d) == RStrip(version_dir(d), "/")
RowsAt(d) == {i \in 1..Len(snapshots) : snapshots[i].snapshot_path = snapshot_path(d)}
Finished(r) == hist[r].status # "running"
ErrorsNaming(errs, d) ==
    {k \in 1..Len(errs) : errs[k].msg = "Error processing" /\ errs[k].dir = d}
HasExc(errs, exc) == \E k \in 1..Len(errs) : errs[k].exc = exc
\* a listing call of a pass over this bucket fails
EnumerationFails(st) ==
    \/ st.listErr = "root"
    \/ st.listErr = "proto2" /\ \E k \in 1..Len(ListRootPrefixes(st)) :
                                    ListRootPrefixes(st)[k] = 2

(* C1: whatever passes run, manual or scheduled, one after the other or at
   the same time, no two rows of the catalog have the same snapshot_path, and
   a pass inserts a row only for a directory whose lookup found none. *)
C1_OneRecordPerPath ==
    /\ \A i, j \in 1..Len(snapshots) :
           snapshots[i].snapshot_path = snapshots[j].snapshot_path => i = j
    /\ \A p \in Procs : pass[p].created \subseteq pass[p].absent

\* a pass came across a directory whose record was already there and inserted nothing
C1_Witness ==
    \E p \in Procs :
        /\ pass[p].pc = "returned"
        /\ pass[p].run > 1
        /\ pass[p].counted # {}
        /\ pass[p].created = {}
        /\ \A d \in pass[p].counted : Cardinality(RowsAt(d)) = 1

(* C2: when two passes both looked up the same new directory and found no
   record, then once both have ended there is exactly one row for its path,
   exactly one of the two counted it as created, and neither has a
   duplicate-key failure in its error list or ended by raising. *)
C2_RaceIsBenign ==
    \A r1, r2 \in 1..Len(hist) :
        (r1 < r2 /\ Finished(r1) /\ Finished(r2)) =>
            \A d \in hist[r1].absent \cap hist[r2].absent :
                /\ Cardinality(RowsAt(d)) = 1
                /\ (d \in hist[r1].created) # (d \in hist[r2].created)
                /\ ~HasExc(hist[r1].errors, "IntegrityError")
                /\ ~HasExc(hist[r2].errors, "IntegrityError")
                /\ hist[r1].status # "raised"
                /\ hist[r2].status # "raised"

(* C3: a pass that follows another pass with the bucket unchanged since the
   first one began reports no created and no updated record and leaves the
   catalog as it found it. *)
C3_SecondPassIdle ==
    \A p \in Procs :
        LET f == pass[p] IN
        (f.pc \in {"returned", "raised"} /\ f.run > 1 /\ hist[f.run - 1].edits0 = edits) =>
            /\ hist[f.run].status \in {"completed", "error"}
            /\ hist[f.run].new_snapshots = 0
            /\ hist[f.run].updated_snapshots = 0
            /\ f.new_snapshots = 0
            /\ f.updated_snapshots = 0
            /\ snapshots = hist[f.run].before

\* the second of two passes ended, the first having created records it now found
C3_Witness ==
    \E p \in Procs :
        LET f == pass[p] IN
        /\ f.pc = "returned"
        /\ f.run > 1
        /\ hist[f.run - 1].edits0 = edits
        /\ hist[f.run - 1].new_snapshots > 0
        /\ f.snapshots_found > 0

(* C4: every pass that has ended closed its ScanRun exactly once
   (completed_at set) and did not end by raising to its caller. *)
C4_RunClosedOnce ==
    \A r \in 1..Len(hist) :
        Finished(r) =>
            /\ scan_history[r].completed_at # None
            /\ hist[r].closes = 1
            /\ hist[r].status # "raised"

(* C5: when a pass has been through the whole bucket, every version
   directory with the marker has a record, whatever failed for the
   directories before it, and every error names a directory that failed
   itself. *)
C5_FailureStaysLocal ==
    \A p \in Procs :
        LET f == pass[p] IN
        (f.pc = "close" /\ f.fatal = "" /\ ~HasExc(f.errors, "ClientError")) =>
            /\ \A d \in DirIds : store.dirs[d].body = "present" => RowsAt(d) # {}
            /\ ~HasExc(f.errors, "PendingRollbackError")

(* C6: a version directory without manifest-body.json is not created, not
   updated, not counted as found, and no error in the run's list names it. *)
C6_NoMarkerNoError ==
    \A p \in Procs :
        LET f == pass[p] IN
        \A d \in f.seen :
            store.dirs[d].body = "absent" =>
                /\ d \notin f.created \cup f.updated \cup f.counted
                /\ ErrorsNaming(f.errors, d) = {}

(* C7: a new version directory with the marker and a manifest-header.json
   that cannot be read or parsed is inserted with total_size_bytes,
   total_chunks and compression_type null, counted as created, and no error
   names it. *)
C7_BadHeaderStillCataloged ==
    \A p \in Procs :
        LET f == pass[p] IN
        /\ f.new_snapshots = Cardinality(f.created)
        /\ \A d \in f.seen \cap f.absent :
               store.dirs[d] = [body |-> "present", header |-> "bad"] =>
                   /\ d \in f.created
                   /\ ErrorsNaming(f.errors, d) = {}
                   /\ \A i \in RowsAt(d) :
                          /\ snapshots[i].total_size_bytes = None
                          /\ snapshots[i].total_chunks = None
                          /\ snapshots[i].compression_type = None
                          /\ snapshots[i].indexed_at = clock

\* a pass has just inserted the record of a directory with a bad header
C7_Witness ==
    \E p \in Procs :
        \E d \in pass[p].seen \cap pass[p].absent :
            /\ store.dirs[d] = [body |-> "present", header |-> "bad"]
            /\ RowsAt(d) # {}

(* C8: a pass during which a listing call failed still ends with its ScanRun
   closed: completed_at is set and the stored error list is not empty. *)
C8_ListingFailureClosesRun ==
    \A p \in Procs :
        LET f == pass[p] IN
        (f.pc \in {"returned", "raised"} /\ settings.s3_ok /\ EnumerationFails(store)) =>
            /\ f.pc = "returned"
            /\ scan_history[f.run].completed_at # None
            /\ scan_history[f.run].errors # None
            /\ \A errs \in scan_history[f.run].errors : Len(errs) > 0

\* a pass whose second listing failed has ended, with a record created before that
C8_Witness ==
    \E p \in Procs :
        /\ pass[p].pc = "returned"
        /\ settings.s3_ok
        /\ store.listErr = "proto2"
        /\ EnumerationFails(store)
        /\ pass[p].created # {}

(* C9: no step of a pass changes external_metadata or block_height of a row
   that exists, the step that overwrites the row's manifest metrics
   included. *)
C9_ExternalFieldsKept ==
    [][pass' # pass =>
          \A id \in 1..Len(snapshots) :
              /\ snapshots'[id].external_metadata = snapshots[id].external_metadata
              /\ snapshots'[id].block_height = snapshots[id].block_height]_vars

\* a pass has overwritten the metrics of a record annotated before it began
C9_Witness ==
    \E p \in Procs :
        \E d \in pass[p].updated :
            \E id \in RowsAt(d) :
                /\ snapshots[id].external_metadata = Some("note")
                /\ snapshots[id].block_height = Some(100)
                /\ snapshots[id].last_updated_at = clock
                /\ snapshots[id].indexed_at < clock

(* C10: no task of the background loop is ended by the error that one of
   its passes raised: after such an error the task is in its cooldown or
   back in the loop. *)
C10_LoopSurvivesPassError ==
    \A t \in TaskIds :
        loop.tasks[t].exc = "OperationalError" => loop.tasks[t].pc = "cooldown"

\* a call of stop() that found the scheduler Running goes back to its caller in this step
StopReturns(t) ==
    \/ t \in loop.stopping /\ t \notin loop'.stopping
    \/ /\ is_running /\ ~is_running' /\ t = loop.task
       /\ loop'.stopping = loop.stopping /\ loop'.starting = loop.starting

(* C11: stop() called while is_running is true sets the cancellation of
   self.task, and when it goes back to its caller it answers "stopped",
   is_running is false and the task it cancelled has finished. *)
C11_StopStopsTheLoop ==
    [][/\ (is_running /\ ~is_running' /\ loop'.stopping # loop.stopping) =>
              /\ loop'.tasks[loop.task].cancel
              /\ loop.task \in loop'.stopping
       /\ \A t \in TaskIds :
              StopReturns(t) =>
                  /\ loop'.ret = Returned("stop", "stopped", t)
                  /\ ~is_running'
                  /\ loop'.tasks[t].pc \in {"ended", "cancelled"}]_vars

\* stop() has answered "stopped" for a task it cancelled in its cooldown
C11_Witness ==
    /\ loop.ret.op = "stop"
    /\ loop.ret.status = "stopped"
    /\ loop.ret.task \in TaskIds
    /\ loop.tasks[loop.ret.task].pc = "cancelled"
    /\ loop.tasks[loop.ret.task].cancel
    /\ ~is_running
    /\ loop.stopping = {}
    /\ Len(scan_history) > 0

(* C12: no call of start() made while is_running is true creates a task and
   no call of stop() made while it is false cancels one; the calls answer
   "already_running" and "already_stopped" and leave is_running, self.task
   and every task as they were. *)
C12_NoOpCalls ==
    [][/\ is_running => Len(loop'.tasks) = Len(loop.tasks) /\ loop'.task = loop.task
       /\ ~is_running =>
              /\ loop'.stopping \subseteq loop.stopping
              /\ \A t \in TaskIds : loop'.tasks[t].cancel = loop.tasks[t].cancel
       /\ (loop'.ret # loop.ret
             /\ loop'.ret.status \in {"already_running", "already_stopped"}) =>
              /\ loop'.ret.status = IF is_running THEN "already_running"
                                                  ELSE "already_stopped"
              /\ loop'.ret.op = IF is_running THEN "start" ELSE "stop"
              /\ is_running' = is_running
              /\ [loop' EXCEPT !.ret = loop.ret] = loop]_vars

\* start() has answered "already_running" while the loop task was in its interval wait
C12_Witness ==
    /\ loop.ret = Returned("start", "already_running", 0)
    /\ is_running
    /\ loop.task \in TaskIds
    /\ loop.tasks[loop.task].pc = "sleep"
    /\ Len(loop.tasks) = 1

(* C13: with scan_on_startup disabled, start() answers "disabled" and
   nothing else: is_running is never true, no loop task exists and every
   pass ever begun is a manual one. *)
C13_DisabledStartIsNoOp ==
    ~settings.scan_on_startup =>
        /\ ~is_running
        /\ loop.tasks = <<>>
        /\ loop.task = 0
        /\ loop.starting = {}
        /\ loop.ret.op = "start" => loop.ret.status = "disabled"
        /\ \A r \in 1..Len(scan_history) : scan_history[r].scan_type = "manual"

\* start() has answered "disabled", after a manual pass had been made
C13_Witness ==
    /\ ~settings.scan_on_startup
    /\ loop.ret = Returned("start", "disabled", 0)
    /\ Len(scan_history) > 0
    /\ pass[Api].pc = "idle"

(* C14: when the task a call of start() created has failed by the end of
   the grace wait, the call answers "error", the failure of the task is
   there to be reported and is_running is false, so that the next start()
   is not refused as "already_running". *)
C14_FailedStartFallsBack ==
    [][\A t \in loop.starting :
           (t \notin loop'.starting /\ loop.tasks[t].pc = "failed") =>
               /\ loop'.ret = Returned("start", "error", t)
               /\ loop.tasks[t].exc # ""
               /\ ~is_running']_vars

\* start() has answered "error" for a task whose initial pass raised
C14_Witness ==
    /\ loop.ret.op = "start"
    /\ loop.ret.status = "error"
    /\ loop.ret.task \in TaskIds
    /\ loop.tasks[loop.ret.task].pc = "failed"
    /\ loop.tasks[loop.ret.task].exc = "OperationalError"
    /\ ~is_running
    /\ loop.starting = {}

(* C15: a call of scan_now() makes one pass, whose scan_history row has
   scan_type "manual", and it can be made whatever is_running and
   scan_on_startup are; the row of a pass of the loop has scan_type
   "scheduled". *)
C15_ManualAndScheduledTags ==
    /\ pass[Api].pc # "idle" =>
           /\ pass[Api].caller \in {"scan_now", "loop"}
           /\ pass[Api].run = Len(scan_history)
           /\ scan_history[pass[Api].run].scan_type =
                  IF pass[Api].caller = "scan_now" THEN "manual" ELSE "scheduled"
           /\ pass[Api].caller = "loop" =>
                  \E t \in TaskIds : loop.tasks[t].pc \in {"initial_scan", "scan"}
    /\ (pass[Api].pc = "idle" /\ Len(scan_history) < MaxScans) => ENABLED ScanNow(Api)

\* a manual pass has ended while the scheduler was Running, after the loop's initial pass
C15_Witness ==
    /\ pass[Api].pc = "returned"
    /\ pass[Api].caller = "scan_now"
    /\ is_running
    /\ Len(scan_history) = 2
    /\ scan_history[1].scan_type = "scheduled"
    /\ scan_history[2].scan_type = "manual"
    /\ scan_history[2].completed_at # None

(* C16: a manual pass whose listings all succeeded goes back to the caller
   of scan_now() without raising, with status "completed" and an error list
   that has one entry for each version directory whose processing failed
   and no other entry (none at all when nothing failed). *)
C16_ErrorsListOfResult ==
    LET f == pass[Api] IN
    (f.pc \in {"returned", "raised"} /\ f.caller = "scan_now"
       /\ settings.s3_ok /\ ~EnumerationFails(store)) =>
        /\ f.pc = "returned"
        /\ hist[f.run].status = "completed"
        /\ \A d \in DirIds :
               Cardinality(ErrorsNaming(hist[f.run].errors, d)) =
                   IF d \in f.seen /\ store.dirs[d].body = "denied" THEN 1 ELSE 0
        /\ \A k \in 1..Len(hist[f.run].errors) :
               hist[f.run].errors[k].msg = "Error processing"

\* the pass could not list prefixes: a listing call failed, or no client to list with
WholePassError(f) ==
    \/ f.fatal # ""
    \/ \E k \in 1..Len(f.errors) : f.errors[k].msg = "Error scanning bucket"

(* C17: a manual pass goes back to the caller of scan_now() with something
   else than the "completed" result (another status, or an exception) if and
   only if it could not list prefixes; a pass whose listing failed does not
   answer "completed". *)
C17_FatalIsDistinct ==
    LET f == pass[Api] IN
    (f.pc \in {"returned", "raised"} /\ f.caller = "scan_now") =>
        ((f.pc = "raised" \/ hist[f.run].status # "completed") <=> WholePassError(f))

(* C18: no step deletes a row of the catalog or changes its snapshot_path or
   its is_active flag, whatever has become of the directory in the bucket:
   the rows only grow in number. *)
C18_AdditiveOnly ==
    [][/\ Len(snapshots') >= Len(snapshots)
       /\ \A id \in 1..Len(snapshots) :
              /\ snapshots'[id].snapshot_path = snapshots[id].snapshot_path
              /\ snapshots'[id].is_active = snapshots[id].is_active]_vars

\* a pass has ended over a bucket from which a cataloged directory had lost its marker or gone
C18_Witness ==
    \E d \in DirIds :
        /\ pass[Api].pc = "returned"
        /\ pass[Api].run = 2
        /\ pass[Api].prefixes_scanned # <<>>
        /\ store.dirs[d].body \in {"nodir", "absent"}
        /\ \E id \in RowsAt(d) : snapshots[id].is_active /\ snapshots[id].indexed_at < clock

\* the name as the parser cuts it up: slashes and one version suffix off, split on "-"
CleanName == StripVersion(RStrip(parser.protocol_dir, "/"))
NameTokens == Split(CleanName, "-")
NoDash(s) == \A i \in 1..Len(s) : s[i] # "-"

(* C19: for a name of at least 4 tokens, parse returns the last token as type,
   the one before it as network, the one before that as client and the
   leading tokens joined with "-" as chain, so that the four fields joined
   with "-" give the name back; arbitrum-one-nitro-mainnet-full-v1 gives
   arbitrum-one, nitro, mainnet, full. *)
C19_ParseFromTheEnd ==
    \A r \in parser.parsed_info :
        LET n == Len(NameTokens) IN
        /\ n >= 4 =>
               /\ r.type = NameTokens[n]
               /\ r.network = NameTokens[n - 1]
               /\ r.client = NameTokens[n - 2]
               /\ r.chain = Join(SubSeq(NameTokens, 1, n - 3), "-")
               /\ Join(<<r.chain, r.client, r.network, r.type>>, "-") = CleanName
               /\ NoDash(r.type) /\ NoDash(r.network) /\ NoDash(r.client)
        /\ CleanName = SubSeq(ArbitrumDir, 1, 31) =>
               r = [chain |-> SubSeq(ArbitrumDir, 1, 12),
                    client |-> <<"n", "i", "t", "r", "o">>,
                    network |-> <<"m", "a", "i", "n", "n", "e", "t">>,
                    type |-> <<"f", "u", "l", "l">>]

\* a name with a chain of several tokens, a version suffix and a trailing slash has been parsed
C19_Witness ==
    /\ parser.parsed_info # None
    /\ Len(NameTokens) >= 5
    /\ Len(parser.protocol_dir) >= Len(CleanName) + 4
    /\ parser.protocol_dir[Len(parser.protocol_dir)] = "/"
    /\ \E r \in parser.parsed_info : ~NoDash(r.chain) /\ r.type # <<>>

(* C20: for a name of fewer than 4 tokens, the empty name included, parse
   returns the four fields: chain is token 0, client is token 1 or
   "unknown", network is token 2 or "mainnet", type is "archive". *)
C20_ParseDefaults ==
    /\ parser.parsed_info # None => Cardinality(parser.parsed_info) = 1
    /\ \A r \in parser.parsed_info :
           LET n == Len(NameTokens) IN
           /\ DOMAIN r = {"chain", "client", "network", "type"}
           /\ n >= 1
           /\ n < 4 =>
                  /\ r.chain = NameTokens[1]
                  /\ r.client = IF n >= 2 THEN NameTokens[2]
                                ELSE <<"u", "n", "k", "n", "o", "w", "n">>
                  /\ r.network = IF n >= 3 THEN NameTokens[3]
                                 ELSE <<"m", "a", "i", "n", "n", "e", "t">>
                  /\ r.type = <<"a", "r", "c", "h", "i", "v", "e">>
           /\ parser.protocol_dir = <<>> => r.chain = <<>>

\* the empty name has been parsed
C20_Witness ==
    /\ parser.protocol_dir = <<>>
    /\ parser.parsed_info # None
    /\ \E r \in parser.parsed_info : r.client = <<"u", "n", "k", "n", "o", "w", "n">>

\* the three manifest-derived columns and the value the pass read for each
ManifestFields == {"total_size_bytes", "total_chunks", "compression_type"}
ManifestValue(h, fld) ==
    CASE fld = "total_size_bytes" -> h.total_size
      [] fld = "total_chunks"     -> h.total_chunks
      [] OTHER                    -> h.compression_type

(* C21: when a pass writes for a directory whose record exists, each of
   total_size_bytes, total_chunks and compression_type is overwritten if and
   only if the manifest's value is not null and differs from the stored one;
   if any of them is overwritten, last_updated_at is stamped and the pass's
   updated count grows by exactly one. *)
C21_OverwriteIffNonNullAndDiffers ==
    [][\A p \in Procs :
          (pass[p].pc = "write" /\ pass'[p] # pass[p] /\ pass[p].cur.existing # 0) =>
              LET c == pass[p].cur
                  old == snapshots[c.existing]
                  new == snapshots'[c.existing]
                  overwritten == {fld \in ManifestFields : new[fld] # old[fld]}
              IN  /\ \A fld \in ManifestFields :
                         (fld \in overwritten) <=>
                             /\ ManifestValue(c.header, fld) # None
                             /\ ManifestValue(c.header, fld) # old[fld]
                  /\ \A fld \in overwritten : new[fld] = ManifestValue(c.header, fld)
                  /\ overwritten # {} =>
                         /\ new.last_updated_at = clock
                         /\ pass'[p].updated_snapshots = pass[p].updated_snapshots + 1
                  /\ overwritten = {} =>
                         pass'[p].updated_snapshots = pass[p].updated_snapshots]_vars

\* the manifest values the pass read are those of the row it found
ManifestUnchanged(c) ==
    \A fld \in ManifestFields : ManifestValue(c.header, fld) = snapshots[c.existing][fld]

(* C22: when a pass reaches the write for a directory whose record exists
   and whose manifest values equal the stored ones, the catalog is left as
   it is (last_updated_at included), snapshots_found grows by one and
   new_snapshots and updated_snapshots stay. *)
C22_UnchangedManifestNoWrite ==
    [][\A p \in Procs :
          (/\ pass[p].pc = "write"
           /\ pass'[p] # pass[p]
           /\ pass[p].cur.existing # 0
           /\ ManifestUnchanged(pass[p].cur)) =>
              /\ snapshots' = snapshots
              /\ pass'[p].snapshots_found = pass[p].snapshots_found + 1
              /\ pass'[p].new_snapshots = pass[p].new_snapshots
              /\ pass'[p].updated_snapshots = pass[p].updated_snapshots]_vars

\* a second pass has counted a directory with a full header whose record it left untouched
C22_Witness ==
    \E d \in pass[Api].counted \ (pass[Api].created \cup pass[Api].updated) :
        /\ pass[Api].pc = "returned"
        /\ pass[Api].run = 2
        /\ pass[Api].snapshots_found > 0
        /\ store.dirs[d].header = "A"
        /\ \E id \in RowsAt(d) :
               /\ snapshots[id].total_size_bytes = Some(10)
               /\ snapshots[id].last_updated_at < clock

\* the attributes a row gets at its insert from the path and the parser
StructuralFields ==
    {"chain", "client", "network", "type", "snapshot_path", "snapshot_id", "indexed_at"}

(* C23: no step changes chain, client, network, type, snapshot_path,
   snapshot_id or indexed_at of a row that exists, the step that overwrites
   the row's manifest metrics included. *)
C23_StructuralAttributesKept ==
    [][\A id \in 1..Len(snapshots) :
          \A fld \in StructuralFields : snapshots'[id][fld] = snapshots[id][fld]]_vars

\* a later pass has overwritten the metrics of a row indexed by an earlier one
C23_Witness ==
    \E d \in pass[Api].updated :
        \E id \in RowsAt(d) :
            /\ pass[Api].run = 2
            /\ snapshots[id].indexed_at < snapshots[id].last_updated_at
            /\ snapshots[id].chain = parse_snapshot_path(ProtocolDirs[VersionDirs[d].proto]).chain
            /\ snapshots[id].external_metadata = None

\* the passes between their first statement and their return, and the open rows
InFlight == {p \in Procs : pass[p].pc \notin {"idle", "returned", "raised"}}
OpenRuns == {r \in 1..Len(scan_history) : scan_history[r].completed_at = None}

(* C24: in every state there are as many ScanRun rows with completed_at
   null as passes in flight, each open row being that of a pass in flight;
   an open row has no counts yet, and a closed row has the counts its pass
   ended with, written in the step that set completed_at. *)
C24_OpenRunsArePassesInFlight ==
    /\ Cardinality(OpenRuns) = Cardinality(InFlight)
    /\ \A r \in OpenRuns : \E p \in InFlight : pass[p].run = r
    /\ \A r \in 1..Len(scan_history) :
           IF r \in OpenRuns
           THEN /\ scan_history[r].snapshots_found = 0
                /\ scan_history[r].new_snapshots = 0
                /\ scan_history[r].updated_snapshots = 0
           ELSE /\ scan_history[r].snapshots_found = hist[r].snapshots_found
                /\ scan_history[r].new_snapshots = hist[r].new_snapshots
                /\ scan_history[r].updated_snapshots = hist[r].updated_snapshots

\* the entries of an error list that report a failed listing call
BucketErrors(errs) == {k \in 1..Len(errs) : errs[k].msg = "Error scanning bucket"}

(* C25: a pass during which a listing call failed ends there: its stored
   error list has exactly one traversal-level entry, the last of the list,
   no directory of the protocol directory whose listing failed was visited,
   and the closed ScanRun carries the counts of the directories handled
   before the failure, whose records are in the catalog. *)
C25_ListingFailureKeepsPartialCounts ==
    \A p \in Procs :
        LET f == pass[p]
            run == scan_history[f.run]
        IN  (f.pc \in {"returned", "raised"} /\ settings.s3_ok /\ EnumerationFails(store)) =>
                /\ run.completed_at # None
                /\ run.errors # None
                /\ \A errs \in run.errors :
                       /\ Cardinality(BucketErrors(errs)) = 1
                       /\ Len(errs) \in BucketErrors(errs)
                /\ \A d \in f.seen : store.listErr = "proto2" /\ VersionDirs[d].proto # 2
                /\ run.snapshots_found = Cardinality(f.counted)
                /\ run.new_snapshots = Cardinality(f.created)
                /\ run.updated_snapshots = Cardinality(f.updated)
                /\ \A d \in f.created \cup f.updated :
                       \E id \in RowsAt(d) : snapshots[id].last_updated_at \in
                                                 run.started_at..Val(run.completed_at)

\* the listing of the second protocol directory failed after the pass had created
\* or updated a record of the first, and the run is closed with that count
C25_Witness ==
    \E p \in Procs :
        /\ pass[p].pc = "returned"
        /\ store.listErr = "proto2"
        /\ EnumerationFails(store)
        /\ pass[p].created \cup pass[p].updated # {}
        /\ scan_history[pass[p].run].new_snapshots
               + scan_history[pass[p].run].updated_snapshots = 1
        /\ scan_history[pass[p].run].errors # None

\* the task is inside a pass / in one of its two waits
Scanning(t) == loop.tasks[t].pc \in {"initial_scan", "scan"}
Waiting(t) == loop.tasks[t].pc \in {"sleep", "cooldown"}

(* C26: once stop() has cancelled the task of a loop, the next step of that
   loop ends it: it leaves its interval wait or its cooldown without going
   back to a wait and without beginning a pass, so that it opens no
   ScanRun; when the loop has ended, every scheduled ScanRun is closed. *)
C26_StopCancelsTheWait ==
    [][\A t \in TaskIds :
          /\ loop.tasks[t].cancel =>
                /\ ~Scanning(t)
                /\ loop'.tasks[t].pc \in {loop.tasks[t].pc, "ended", "cancelled"}
          /\ (~done(t) /\ loop'.tasks[t].pc \in {"ended", "cancelled"}) =>
                \A r \in 1..Len(scan_history') :
                    scan_history'[r].scan_type = "scheduled" =>
                        scan_history'[r].completed_at # None]_vars

\* stop() has returned "stopped" for a loop it found in its interval wait after a closed scheduled pass
C26_Witness ==
    /\ loop.ret.op = "stop"
    /\ loop.ret.status = "stopped"
    /\ loop.ret.task \in TaskIds
    /\ loop.tasks[loop.ret.task].cancel
    /\ loop.tasks[loop.ret.task].pc = "ended"
    /\ ~is_running
    /\ \E r \in 1..Len(scan_history) :
           scan_history[r].scan_type = "scheduled" /\ scan_history[r].completed_at # None

\* this step opens a ScanRun tagged "scheduled"
OpensScheduledRun ==
    /\ Len(scan_history') = Len(scan_history) + 1
    /\ scan_history'[Len(scan_history')].scan_type = "scheduled"

(* C27: the first step of the loop is its initial pass (or its failure, or
   the cancellation of a task that never ran), never a wait; every later
   pass begins in the step that ends an interval wait which was not
   cancelled, with is_running set; a pass is never followed by another pass
   of the same loop without that wait; and whenever the loop opens a
   scheduled ScanRun, is_running is set. *)
C27_PassThenWaitThenPass ==
    [][/\ \A t \in TaskIds :
             LET pc0 == loop.tasks[t].pc
                 pc1 == loop'.tasks[t].pc
             IN  /\ (pc0 = "created" /\ pc1 # pc0) =>
                        pc1 \in {"initial_scan", "failed", "cancelled"}
                 /\ (pc1 = "initial_scan" /\ pc1 # pc0) =>
                        pc0 = "created" /\ ~loop.tasks[t].cancel
                 /\ (pc1 = "scan" /\ pc1 # pc0) =>
                        pc0 = "sleep" /\ is_running /\ ~loop.tasks[t].cancel
                 /\ (Scanning(t) /\ pc1 # pc0) =>
                        pc1 \in {"sleep", "cooldown", "ended", "failed"}
                 /\ (pc0 = "cooldown" /\ pc1 # pc0) =>
                        pc1 \in {"sleep", "ended", "cancelled"}
       /\ (OpensScheduledRun /\ pass'[Api].caller = "loop") =>
             /\ is_running
             /\ \E t \in TaskIds :
                    /\ ~Scanning(t)
                    /\ loop'.tasks[t].pc \in {"initial_scan", "scan"}]_vars

\* the loop is in its second pass: the initial one is closed and a wait lay between
C27_Witness ==
    \E t \in TaskIds :
        /\ loop.tasks[t].pc = "scan"
        /\ is_running
        /\ Len(scan_history) = 2
        /\ scan_history[1].scan_type = "scheduled"
        /\ scan_history[1].completed_at # None
        /\ scan_history[2].scan_type = "scheduled"
        /\ pass[Api].caller = "loop"

(* C28: a process holds an open session exactly while it is inside a pass,
   from the call of get_db to the finally of the caller: no pass is left
   with its session open, whether it returned a result or raised, and no
   pass runs on a session that was closed before its end; two passes in
   flight hold one session each. *)
C28_SessionPerPass ==
    /\ \A p \in Procs : (pass[p].pc = "idle") <=> (pass[p].db = "closed")
    /\ \A p, q \in InFlight : p # q => pass[p].run # pass[q].run

\* a manual pass that ended by raising has released its session, while a scheduled
\* pass of the other process is in flight on its own
C28_Witness ==
    \E p, q \in Procs :
        /\ pass[p].pc = "idle"
        /\ pass[p].db = "closed"
        /\ \E r \in 1..Len(hist) :
               /\ hist[r].proc = p
               /\ hist[r].scan_type = "manual"
               /\ hist[r].status = "raised"
        /\ q \in InFlight
        /\ pass[q].scan_type = "scheduled"
        /\ pass[q].db # "closed"

(* C29: a version directory whose HEAD of manifest-body.json is refused
   (an error that is not "not found") is left out by the pass that visits
   it: it is not created, not updated and not counted as found, its record
   if it has one stays as it was, and exactly one per-item error of the
   run's list names it. *)
C29_RefusedMarkerIsOneItemError ==
    \A p \in Procs :
        LET f == pass[p] IN
        \A d \in f.seen :
            store.dirs[d].body = "denied" =>
                /\ d \notin f.created \cup f.updated \cup f.counted
                /\ Cardinality(ErrorsNaming(f.errors, d)) = 1
                /\ \A k \in ErrorsNaming(f.errors, d) : f.errors[k].exc = "ClientError:403"
                /\ \A id \in RowsAt(d) :
                       /\ id <= Len(hist[f.run].before)
                       /\ snapshots[id] = hist[f.run].before[id]
                /\ f.pc = "returned" =>
                       /\ scan_history[f.run].errors = Some(f.errors)
                       /\ scan_history[f.run].snapshots_found = Cardinality(f.counted)

\* a second pass has ended over a directory cataloged by the first and refused since
C29_Witness ==
    \E d \in pass[Api].seen :
        /\ pass[Api].pc = "returned"
        /\ pass[Api].run = 2
        /\ store.dirs[d].body = "denied"
        /\ RowsAt(d) # {}
        /\ Cardinality(ErrorsNaming(pass[Api].errors, d)) = 1

(* C30: a version directory with manifest-body.json and no
   manifest-header.json that had no record is inserted by the pass that
   visits it: one row, with total_size_bytes, total_chunks, compression_type,
   manifest_header_path and snapshot_metadata null, counted as found and as
   created, and no entry of the pass's error list is about it. *)
C30_NoHeaderStillCataloged ==
    \A p \in Procs :
        LET f == pass[p] IN
        \A d \in f.seen \cap f.absent :
            store.dirs[d] = [body |-> "present", header |-> "none"] =>
                /\ d \in f.created \cap f.counted
                /\ d \notin f.updated
                /\ \A k \in 1..Len(f.errors) : f.errors[k].dir # d
                /\ Cardinality(RowsAt(d)) = 1
                /\ \A i \in RowsAt(d) :
                       /\ snapshots[i].total_size_bytes = None
                       /\ snapshots[i].total_chunks = None
                       /\ snapshots[i].compression_type = None
                       /\ snapshots[i].manifest_header_path = None
                       /\ snapshots[i].snapshot_metadata = None
                       /\ snapshots[i].is_active

\* a pass has ended with no error after inserting the record of a directory without header
C30_Witness ==
    \E p \in Procs :
        \E d \in pass[p].created :
            /\ pass[p].pc = "returned"
            /\ store.dirs[d] = [body |-> "present", header |-> "none"]
            /\ RowsAt(d) # {}
            /\ pass[p].errors = <<>>
            /\ scan_history[pass[p].run].errors = None

\* the structured attributes of a row, as one record
Structured(row) ==
    [chain |-> row.chain, client |-> row.client, network |-> row.network, type |-> row.type]

(* C31: every row of the catalog is that of one version directory of the
   bucket: its snapshot_path is the directory's prefix without the trailing
   slash and has exactly two segments, its snapshot_id is the second one,
   and its chain, client, network and type are what parse_snapshot_path
   gives for the protocol directory. *)
C31_KeyAndAttributesOfARow ==
    \A id \in 1..Len(snapshots) :
        LET row == snapshots[id] IN
        /\ Len(Split(row.snapshot_path, "/")) = 2
        /\ \E d \in DirIds :
               /\ row.snapshot_path = RStrip(version_dir(d), "/")
               /\ row.snapshot_path \o <<"/">> = version_dir(d)
               /\ row.snapshot_id = VersionDirs[d].name
               /\ row.snapshot_id = Split(row.snapshot_path, "/")[2]
               /\ Structured(row) = parse_snapshot_path(ProtocolDirs[VersionDirs[d].proto])

\* a pass has inserted the record of a version directory whose own name would parse
\* otherwise than its protocol directory's
C31_Witness ==
    \E p \in Procs :
        \E d \in pass[p].created :
            \E id \in RowsAt(d) :
                /\ pass[p].pc = "returned"
                /\ Structured(snapshots[id]) # parse_snapshot_path(version_dir(d))
                /\ snapshots[id].type # archive

\* the loop tasks that can still begin a pass: not finished and not cancelled
AbleToScan == {t \in TaskIds : ~done(t) /\ ~loop.tasks[t].cancel}

(* C32: whatever the order of the start() and stop() calls and of the steps
   of the loops, at most one loop task is able to begin a pass (not
   finished, not cancelled), that task is the one self.task refers to, and
   a task inside a pass is that task. *)
C32_OneLoopAbleToScan ==
    /\ Cardinality(AbleToScan) <= 1
    /\ AbleToScan \subseteq {loop.task}
    /\ \A t \in TaskIds : Scanning(t) => t \in AbleToScan

\* a second start() has created its loop while a stop() still awaits the end of the first
C32_Witness ==
    \E t1, t2 \in TaskIds :
        /\ t1 # t2
        /\ t1 \in loop.stopping
        /\ ~done(t1)
        /\ loop.tasks[t1].cancel
        /\ loop.tasks[t1].pc = "sleep"
        /\ t2 \in AbleToScan
        /\ t2 \in loop.starting
        /\ is_running

\* this step is the return of a start() call that had created task t
StartReturns(t) == t \in loop.starting /\ t \notin loop'.starting

(* C33: in the step in which a start() call returns "started", is_running
   is true and the loop task that call created has not finished. *)
C33_StartedMeansRunning ==
    [][\A t \in TaskIds :
          (StartReturns(t) /\ loop'.ret.status = "started") =>
              /\ is_running'
              /\ loop'.tasks[t].pc \notin {"ended", "failed", "cancelled"}]_vars

(* C34: no call of start() or stop() ends by raising to its caller: what a
   call went back with is always one of the status structures. *)
C34_StartStopNeverRaise ==
    /\ loop.ret.status # "raised"
    /\ loop.ret.op \in {"start", "stop"} =>
           loop.ret.status \in {"started", "already_running", "disabled", "error",
                                "stopped", "already_stopped"}

(* C35: from the step that opens the ScanRun of a pass to the step that
   closes it, every step of the process is a step of that pass: is_running
   and the loop tasks stay as they are, no start() or stop() begins or
   returns, and no other ScanRun is opened; so at most one ScanRun of the
   process is open at a time. *)
C35_PassIsNotInterleaved ==
    [][/\ Api \in InFlight =>
             /\ is_running' = is_running
             /\ loop' = loop
             /\ Len(scan_history') = Len(scan_history)
             /\ pass'[Api].run = pass[Api].run
             /\ pass'[Api].caller = pass[Api].caller
       /\ Cardinality(OpenRuns) <= 1]_vars

\* a manual pass is at a record write while the loop is in its interval wait
C35_Witness ==
    /\ pass[Api].pc = "write"
    /\ pass[Api].caller = "scan_now"
    /\ is_running
    /\ \E t \in TaskIds : loop.tasks[t].pc = "sleep" /\ ~loop.tasks[t].cancel
    /\ \E r \in 1..Len(scan_history) :
           scan_history[r].scan_type = "scheduled" /\ scan_history[r].completed_at # None

(* C36: in every pass new_snapshots + updated_snapshots <= snapshots_found:
   snapshots_found counts the directories that went through without an
   exception, once each, new_snapshots and updated_snapshots count disjoint
   subsets of them, a directory named by a per-item error is in none of the
   three, and the closed ScanRun of a pass that returned has these counts. *)
C36_CreatedPlusUpdatedAtMostFound ==
    \A p \in Procs :
        LET f == pass[p] IN
        /\ f.new_snapshots + f.updated_snapshots <= f.snapshots_found
        /\ f.snapshots_found = Cardinality(f.counted)
        /\ f.new_snapshots = Cardinality(f.created)
        /\ f.updated_snapshots = Cardinality(f.updated)
        /\ f.created \cap f.updated = {}
        /\ f.created \cup f.updated \subseteq f.counted
        /\ \A d \in DirIds :
               ErrorsNaming(f.errors, d) # {} => d \notin f.counted
        /\ \A d \in f.counted : d \in f.seen /\ store.dirs[d].body = "present"
        /\ f.pc = "returned" /\ f.fatal = "" =>
               /\ scan_history[f.run].snapshots_found = f.snapshots_found
               /\ scan_history[f.run].new_snapshots = f.new_snapshots
               /\ scan_history[f.run].updated_snapshots = f.updated_snapshots

\* a pass has returned having found two directories and created or updated one of them
C36_Witness ==
    \E p \in Procs :
        LET f == pass[p] IN
        /\ f.pc = "returned"
        /\ f.snapshots_found = 2
        /\ f.new_snapshots + f.updated_snapshots = 1
        /\ scan_history[f.run].snapshots_found = 2

(* C37: no step of a manual pass, from the call of scan_now to its return,
   changes is_running, self.task or any loop task, whether the pass ends
   with a result of status "completed" or "error". *)
C37_ManualScanLeavesScheduler ==
    [][(pass[Api].caller = "scan_now" \/ pass'[Api].caller = "scan_now") =>
          /\ is_running' = is_running
          /\ loop' = loop]_vars

\* scan_now has returned with status "error" while the loop was in its interval wait
C37_Witness ==
    /\ pass[Api].pc = "idle"
    /\ is_running
    /\ \E t \in TaskIds : loop.tasks[t].pc = "sleep" /\ ~loop.tasks[t].cancel
    /\ \E r \in 1..Len(hist) :
           /\ hist[r].scan_type = "manual"
           /\ hist[r].status = "error"
           /\ scan_history[r].completed_at # None

\* stop() has been called for the loop of task t (the only way its cancellation is set)
StopCalled(t) == t \in TaskIds /\ loop.tasks[t].cancel
\* start() has answered "started" for task t, which it found alive
Started(t) ==
    /\ t \in TaskIds
    /\ loop.ret = Returned("start", "started", t)
    /\ ~done(t)
\* task t is about to make a pass or has just attempted one
Attempting(t) == t \in TaskIds /\ loop.tasks[t].pc \in {"scan", "cooldown"}
InIntervalWait(t) == t \in TaskIds /\ loop.tasks[t].pc = "sleep"

(* C38: once start() has answered "started" for a loop, then, unless stop()
   is called for it, that loop is in its interval wait again and again and
   between two waits begins a pass (which opens its ScanRun or fails and
   sends the loop to its cooldown) again and again; and the scheduler does
   not stay with is_running true and a finished self.task. *)
C38_LoopKeepsScanning ==
    /\ \A t \in 1..MaxTasks :
           [](Started(t) =>
                 /\ []<>(InIntervalWait(t) \/ StopCalled(t))
                 /\ []<>(Attempting(t) \/ StopCalled(t)))
    /\ []<>(~(is_running /\ loop.task \in TaskIds /\ done(loop.task)))

\* the loop is in a pass made after an interval wait, start() having answered "started"
C38_Witness ==
    \E t \in TaskIds :
        /\ Started(t)
        /\ loop.tasks[t].pc = "scan"
        /\ ~StopCalled(t)
        /\ is_running

(* C39: every call of stop() that has cancelled the loop task and awaits it
   gets its answer: the cancelled task finishes from wherever it is (before
   its first step, in the interval wait, in the cooldown, after a pass) and
   the await of stop() ends. *)
C39_StopReturns ==
    \A t \in 1..MaxTasks : (t \in loop.stopping) ~> (t \notin loop.stopping)

\* stop() has answered "stopped" for a loop it cancelled in its error cooldown
C39_Witness ==
    \E t \in TaskIds :
        /\ loop.ret = Returned("stop", "stopped", t)
        /\ loop.tasks[t].pc = "cancelled"
        /\ loop.tasks[t].exc = "CancelledError"
        /\ \E i \in 1..Len(scan_history) : scan_history[i].scan_type = "scheduled"
        /\ loop.stopping = {}

====
